---- MODULE Spec2Model ----
(***************************************************************************)
(* OCSF schema -> Parquet schema text (generate.py).                       *)
(*                                                                         *)
(* Data representation                                                     *)
(*   attribute map   ordered dict  -> sequence of [name, attr]             *)
(*   attribute       None / {}     -> attr.null = TRUE                     *)
(*                   "type_name", "type" -> strings, "" when absent/empty  *)
(*   class           dict          -> [name, category, deprecated,         *)
(*                   attributes]: category is <<>> when the key is absent  *)
(*                   (get gives None) and <<c>> when it holds c;           *)
(*                   deprecated is the truthiness of "@deprecated";        *)
(*                   attributes is <<>> when the key is absent or falsy    *)
(*   object def      dict          -> has_attributes / has_extends say     *)
(*                   whether the keys "attributes" / "extends" are         *)
(*                   present, has_other whether the dict holds any other   *)
(*                   key (caption, name, description ...); the dict is     *)
(*                   falsy when it has no key at all                       *)
(*   types           dict          -> function name -> [type], "" when the *)
(*                   entry has no underlying type                          *)
(*   output line     string        -> [indent, kind, name, ptype]:         *)
(*       message     "message <name> {"                                    *)
(*       list_group  "optional group <name> (LIST) {"                      *)
(*       repeated    "repeated group list {"                               *)
(*       group       "optional group <name> {"                             *)
(*       field       "optional <ptype.format(name)>;"                      *)
(*       close       "}"                                                   *)
(*   text            "\n".join(lines) -> the sequence of lines             *)
(*   qualified path  f"{prefix}:{name}" -> prefix with name appended       *)
(*                   (names hold no ':'); the prefix "" is <<>>, and a     *)
(*                   path always holds at least one name                   *)
(*   set of paths    set / None    -> a set of non-empty sequences; None,  *)
(*                   which is no set, is the one value {<<>>} that no set  *)
(*                   of paths equals                                       *)
(***************************************************************************)
EXTENDS Integers, Sequences, FiniteSets, TLC

VARIABLES schema, ci, schemas, lines, stack, processed_objects, processed_attrs

vars == <<schema, ci, schemas, lines, stack, processed_objects, processed_attrs>>

----------------------------------------------------------------------------
(* get_basic_type *)

DefaultType == "BYTE_ARRAY {} (STRING)"

basic_types ==
    [n \in {"boolean_t", "long_t", "integer_t", "float_t", "json_t", "timestamp_t"} |->
        CASE n = "boolean_t"   -> "BOOLEAN {}"
          [] n = "long_t"      -> "INT64 {} (INTEGER(64, true))"
          [] n = "integer_t"   -> "INT32 {} (INTEGER(32, true))"
          [] n = "float_t"     -> "FLOAT {}"
          [] n = "json_t"      -> "BYTE_ARRAY {} (JSON)"
          [] n = "timestamp_t" -> "INT64 {} (TIMESTAMP(MILLIS, false))"]

\* variant: the alias is looked up once, its underlying type is not resolved
\* further
get_basic_type_one_level(type_name, types) ==
    IF type_name = "" THEN DefaultType
    ELSE IF type_name \in DOMAIN basic_types THEN basic_types[type_name]
    ELSE IF type_name \in DOMAIN types /\ types[type_name].type \in DOMAIN basic_types
         THEN basic_types[types[type_name].type]
    ELSE DefaultType

RECURSIVE get_basic_type(_, _)
get_basic_type(type_name, types) ==
    IF type_name = "" THEN DefaultType
    ELSE IF type_name \in DOMAIN basic_types THEN basic_types[type_name]
    ELSE IF type_name \in DOMAIN types /\ types[type_name].type # ""
         THEN get_basic_type(types[type_name].type, types)
    ELSE DefaultType

----------------------------------------------------------------------------
(* Output lines *)

Line(indent, kind, name, ptype) ==
    [indent |-> indent, kind |-> kind, name |-> name, ptype |-> ptype]

MessageLine(class_name) == Line(0, "message", class_name, "")
CloseLine(indent)       == Line(indent, "close", "", "")

\* lines 79-80 / 143-144 (array) and line 112 (plain group)
GroupOpenLines(indent, name, is_array) ==
    IF is_array
    THEN <<Line(indent, "list_group", name, ""), Line(indent + 2, "repeated", "list", "")>>
    ELSE <<Line(indent, "group", name, "")>>

\* variant: a list wrapper is closed with one "}" only
GroupCloseLinesOnce(indent, is_array) == <<CloseLine(indent)>>

\* lines 109-110 (array) and line 137 (plain group)
GroupCloseLines(indent, is_array) ==
    IF is_array
    THEN <<CloseLine(indent + 2), CloseLine(indent)>>
    ELSE <<CloseLine(indent)>>

\* lines 141-149
BasicLines(indent, name, parquet_type, is_array) ==
    IF is_array
    THEN GroupOpenLines(indent, name, TRUE)
         \o <<Line(indent + 4, "field", "element", parquet_type)>>
         \o GroupCloseLines(indent, TRUE)
    ELSE <<Line(indent, "field", name, parquet_type)>>

\* indent + 4 under a list wrapper, indent + 2 under a plain group
NestedIndent(indent, is_array) == IF is_array THEN indent + 4 ELSE indent + 2

----------------------------------------------------------------------------
(* Reading one attribute (lines 53-75) *)

ProcessedName(prefix, name) == Append(prefix, name)

\* lines 63-65
DeclaredType(attr) == IF attr.type_name # "" THEN attr.type_name ELSE attr.type

\* line 71
IsObjectType(type_name, sch) == type_name # "" /\ type_name \in DOMAIN sch.objects

\* line 55
Seen(processed_name, pa) == processed_name \in pa

\* variant: no cycle guard
IsActiveNever(type_name, po) == FALSE

\* line 72
IsActive(type_name, po) == type_name \in po

\* variant: the deprecated marker is ignored
IsDeprecatedNever(class_def) == FALSE

\* line 173
IsDeprecated(class_def) == class_def.deprecated

\* truthiness of an object definition (line 77): a dict is truthy as soon as
\* it holds one key, whichever it is
ObjDefTruthy(obj_def) ==
    obj_def.has_attributes \/ obj_def.has_extends \/ obj_def.has_other

\* lines 95 / 124 together with 97 / 126
HasBaseAttributes(obj_def, sch) ==
    /\ obj_def.has_extends
    /\ obj_def.extends \in DOMAIN sch.objects
    /\ sch.objects[obj_def.extends].has_attributes

BaseAttributes(obj_def, sch) == sch.objects[obj_def.extends].attributes

----------------------------------------------------------------------------
(* process_attributes as a function of its arguments.  The two sets are    *)
(* mutated through the reference the caller passed, so the result carries  *)
(* them next to the returned lines.                                        *)

\* processed_attrs = None, the default of the parameter (line 39).  Line 53
\* builds every path from a prefix and a name, so no set of paths holds the
\* empty path and no set the program passes equals None.
None == {<<>>}

\* lines 49-50
InitProcessedAttrs(pa) ==
    IF pa = None THEN {} ELSE pa

Result(ls, po, pa) == [lines |-> ls, processed_objects |-> po, processed_attrs |-> pa]

RECURSIVE process_attributes(_, _, _, _, _, _)
RECURSIVE AttributeLoop(_, _, _, _, _, _)

\* lines 77-138: obj_def is truthy, type_name was just added to processed_objects
ExpandObject(st, name, type_name, is_array, sch, indent, processed_name) ==
    LET obj_def == sch.objects[type_name]
        inner   == NestedIndent(indent, is_array)
        own  == IF obj_def.has_attributes
                THEN process_attributes(obj_def.attributes, sch, st.processed_objects,
                                        inner, processed_name, st.processed_attrs)
                ELSE Result(<<>>, st.processed_objects, st.processed_attrs)
        base == IF HasBaseAttributes(obj_def, sch)
                THEN process_attributes(BaseAttributes(obj_def, sch), sch,
                                        own.processed_objects, inner, processed_name,
                                        own.processed_attrs)
                ELSE Result(<<>>, own.processed_objects, own.processed_attrs)
    IN Result(st.lines \o GroupOpenLines(indent, name, is_array)
                       \o own.lines \o base.lines
                       \o GroupCloseLines(indent, is_array),
              base.processed_objects \ {type_name},
              base.processed_attrs)

\* lines 53-149: one pass of the loop body
LoopBody(st, entry, sch, indent, prefix) ==
    LET name           == entry.name
        attr           == entry.attr
        processed_name == ProcessedName(prefix, name)
        marked         == Result(st.lines, st.processed_objects,
                                 st.processed_attrs \cup {processed_name})
        type_name      == DeclaredType(attr)
        is_array       == attr.is_array
    IN IF Seen(processed_name, st.processed_attrs) THEN st
       ELSE IF attr.null THEN marked
       ELSE IF IsObjectType(type_name, sch)
            THEN IF IsActive(type_name, st.processed_objects) THEN marked
                 ELSE LET added == Result(marked.lines,
                                          marked.processed_objects \cup {type_name},
                                          marked.processed_attrs)
                      IN IF ObjDefTruthy(sch.objects[type_name])
                         THEN ExpandObject(added, name, type_name, is_array, sch,
                                           indent, processed_name)
                         ELSE Result(added.lines \o BasicLines(indent, name,
                                         get_basic_type(type_name, sch.types), is_array),
                                     added.processed_objects, added.processed_attrs)
       ELSE Result(marked.lines \o BasicLines(indent, name,
                       get_basic_type(type_name, sch.types), is_array),
                   marked.processed_objects, marked.processed_attrs)

AttributeLoop(st, attributes, i, sch, indent, prefix) ==
    IF i > Len(attributes) THEN st
    ELSE AttributeLoop(LoopBody(st, attributes[i], sch, indent, prefix),
                       attributes, i + 1, sch, indent, prefix)

process_attributes(attributes, sch, po, indent, prefix, pa) ==
    IF attributes = <<>> THEN Result(<<>>, po, pa)
    ELSE LET r == AttributeLoop(Result(<<>>, po, InitProcessedAttrs(pa)),
                                attributes, 1, sch, indent, prefix)
         IN r

\* lines 153-166
generate_class_schema(class_name, class_def, sch) ==
    <<MessageLine(class_name)>>
    \o (IF class_def.attributes # <<>>
        THEN process_attributes(class_def.attributes, sch, {}, 2, <<>>, None).lines
        ELSE <<>>)
    \o <<CloseLine(0)>>

Triple(class_def, text) ==
    [category |-> class_def.category, class_name |-> class_def.name, text |-> text]

\* lines 168-184
RECURSIVE generate_schemas_from(_, _)
generate_schemas_from(sch, k) ==
    IF k > Len(sch.classes) THEN <<>>
    ELSE LET class_def == sch.classes[k]
         IN (IF IsDeprecated(class_def) THEN <<>>
             ELSE <<Triple(class_def,
                           generate_class_schema(class_def.name, class_def, sch))>>)
            \o generate_schemas_from(sch, k + 1)

generate_schemas(sch) == generate_schemas_from(sch, 1)

----------------------------------------------------------------------------
(* The same code as a state machine.  stack holds one frame per active     *)
(* call of process_attributes (the last one is the running call); a frame  *)
(* whose stage is "own" or "base" is suspended at the nested call of lines *)
(* 84 / 115 or 99 / 128 made for its attribute number i.                   *)
(* processed_objects and processed_attrs are the two set objects every     *)
(* call of one class shares; lines is the list of generate_class_schema;   *)
(* ci is the position of the loop of generate_schemas.                     *)

Frame(attributes, indent, prefix) ==
    [attributes |-> attributes, i |-> 1, indent |-> indent, prefix |-> prefix,
     lines |-> <<>>, stage |-> "loop"]

Top      == stack[Len(stack)]
CurEntry == Top.attributes[Top.i]
CurName  == ProcessedName(Top.prefix, CurEntry.name)
CurType  == DeclaredType(CurEntry.attr)

InLoop == stack # <<>> /\ Top.stage = "loop" /\ Top.i <= Len(Top.attributes)
Returning == stack # <<>> /\ Top.stage = "loop" /\ Top.i > Len(Top.attributes)

SetTop(stk, f) == [stk EXCEPT ![Len(stk)] = f]

FrameEntry(f) == f.attributes[f.i]

\* lines 109-110 / 137, then line 138; the loop moves to the next attribute
CloseGroup(stk, po) ==
    LET f == stk[Len(stk)]
        a == FrameEntry(f).attr
    IN [stack |-> SetTop(stk, [f EXCEPT !.lines = @ \o GroupCloseLines(f.indent, a.is_array),
                                        !.i = @ + 1,
                                        !.stage = "loop"]),
        processed_objects |-> po \ {DeclaredType(a)}]

\* lines 94-107 / 124-136: the own attributes are done
AfterOwn(stk, po, sch) ==
    LET f       == stk[Len(stk)]
        e       == FrameEntry(f)
        obj_def == sch.objects[DeclaredType(e.attr)]
    IN IF HasBaseAttributes(obj_def, sch)
       THEN [stack |-> Append(SetTop(stk, [f EXCEPT !.stage = "base"]),
                              Frame(BaseAttributes(obj_def, sch),
                                    NestedIndent(f.indent, e.attr.is_array),
                                    ProcessedName(f.prefix, e.name))),
             processed_objects |-> po]
       ELSE CloseGroup(stk, po)

\* lines 78-92 / 112-123: the wrapper is opened, the own attributes are next
AfterOpen(stk, po, sch) ==
    LET f       == stk[Len(stk)]
        e       == FrameEntry(f)
        obj_def == sch.objects[DeclaredType(e.attr)]
    IN IF obj_def.has_attributes
       THEN [stack |-> Append(SetTop(stk, [f EXCEPT !.stage = "own"]),
                              Frame(obj_def.attributes,
                                    NestedIndent(f.indent, e.attr.is_array),
                                    ProcessedName(f.prefix, e.name))),
             processed_objects |-> po]
       ELSE AfterOwn(stk, po, sch)

NextAttribute == SetTop(stack, [Top EXCEPT !.i = @ + 1])

\* lines 55-56
SkipSeen ==
    /\ InLoop
    /\ Seen(CurName, processed_attrs)
    /\ stack' = NextAttribute
    /\ UNCHANGED <<schema, ci, schemas, lines, processed_objects, processed_attrs>>

\* lines 58-61
SkipNull ==
    /\ InLoop
    /\ ~Seen(CurName, processed_attrs)
    /\ CurEntry.attr.null
    /\ processed_attrs' = processed_attrs \cup {CurName}
    /\ stack' = NextAttribute
    /\ UNCHANGED <<schema, ci, schemas, lines, processed_objects>>

\* lines 71-73
SkipActive ==
    /\ InLoop
    /\ ~Seen(CurName, processed_attrs)
    /\ ~CurEntry.attr.null
    /\ IsObjectType(CurType, schema)
    /\ IsActive(CurType, processed_objects)
    /\ processed_attrs' = processed_attrs \cup {CurName}
    /\ stack' = NextAttribute
    /\ UNCHANGED <<schema, ci, schemas, lines, processed_objects>>

\* lines 71-77 and 139-149: the type is no object, or an object whose
\* definition is falsy
EmitBasic ==
    /\ InLoop
    /\ ~Seen(CurName, processed_attrs)
    /\ ~CurEntry.attr.null
    /\ IF IsObjectType(CurType, schema)
       THEN /\ ~IsActive(CurType, processed_objects)
            /\ ~ObjDefTruthy(schema.objects[CurType])
            /\ processed_objects' = processed_objects \cup {CurType}
       ELSE UNCHANGED processed_objects
    /\ processed_attrs' = processed_attrs \cup {CurName}
    /\ stack' = SetTop(stack,
            [Top EXCEPT !.lines = @ \o BasicLines(Top.indent, CurEntry.name,
                                        get_basic_type(CurType, schema.types),
                                        CurEntry.attr.is_array),
                        !.i = @ + 1])
    /\ UNCHANGED <<schema, ci, schemas, lines>>

\* lines 71-137 up to the first nested call (or to line 138 when there is none)
OpenGroup ==
    /\ InLoop
    /\ ~Seen(CurName, processed_attrs)
    /\ ~CurEntry.attr.null
    /\ IsObjectType(CurType, schema)
    /\ ~IsActive(CurType, processed_objects)
    /\ ObjDefTruthy(schema.objects[CurType])
    /\ processed_attrs' = processed_attrs \cup {CurName}
    /\ LET opened == SetTop(stack,
                        [Top EXCEPT !.lines = @ \o GroupOpenLines(Top.indent,
                                                    CurEntry.name, CurEntry.attr.is_array)])
           nxt    == AfterOpen(opened, processed_objects \cup {CurType}, schema)
       IN /\ stack' = nxt.stack
          /\ processed_objects' = nxt.processed_objects
    /\ UNCHANGED <<schema, ci, schemas, lines>>

\* line 151 of a nested call, then the caller from lines.extend on
Return ==
    /\ Returning
    /\ Len(stack) >= 2
    /\ LET below    == SubSeq(stack, 1, Len(stack) - 1)
           caller   == below[Len(below)]
           extended == SetTop(below, [caller EXCEPT !.lines = @ \o Top.lines])
           nxt      == IF caller.stage = "own"
                       THEN AfterOwn(extended, processed_objects, schema)
                       ELSE CloseGroup(extended, processed_objects)
       IN /\ stack' = nxt.stack
          /\ processed_objects' = nxt.processed_objects
    /\ UNCHANGED <<schema, ci, schemas, lines, processed_attrs>>

AtClassLoop == stack = <<>> /\ ci <= Len(schema.classes)
CurClass    == schema.classes[ci]

\* lines 173-174
SkipDeprecated ==
    /\ AtClassLoop
    /\ IsDeprecated(CurClass)
    /\ ci' = ci + 1
    /\ UNCHANGED <<schema, schemas, lines, stack, processed_objects, processed_attrs>>

\* lines 157-166 for a class without attributes
EmitEmptyClass ==
    /\ AtClassLoop
    /\ ~IsDeprecated(CurClass)
    /\ CurClass.attributes = <<>>
    /\ schemas' = Append(schemas,
                         Triple(CurClass, <<MessageLine(CurClass.name), CloseLine(0)>>))
    /\ ci' = ci + 1
    /\ UNCHANGED <<schema, lines, stack, processed_objects, processed_attrs>>

\* lines 157-162 and 45-50: the call of process_attributes is entered
\* variant: the two sets of the previous class are used again
BeginClassKeepingSets ==
    /\ AtClassLoop
    /\ ~IsDeprecated(CurClass)
    /\ CurClass.attributes # <<>>
    /\ lines' = <<MessageLine(CurClass.name)>>
    /\ stack' = <<Frame(CurClass.attributes, 2, <<>>)>>
    /\ UNCHANGED <<schema, ci, schemas, processed_objects, processed_attrs>>

BeginClass ==
    /\ AtClassLoop
    /\ ~IsDeprecated(CurClass)
    /\ CurClass.attributes # <<>>
    /\ lines' = <<MessageLine(CurClass.name)>>
    /\ processed_objects' = {}
    /\ processed_attrs' = InitProcessedAttrs(None)
    /\ stack' = <<Frame(CurClass.attributes, 2, <<>>)>>
    /\ UNCHANGED <<schema, ci, schemas>>

\* line 151 of the outermost call, then lines 161-166 and 176-182
FinishClass ==
    /\ Returning
    /\ Len(stack) = 1
    /\ schemas' = Append(schemas,
                         Triple(CurClass, lines \o Top.lines \o <<CloseLine(0)>>))
    /\ stack' = <<>>
    /\ lines' = <<>>
    /\ ci' = ci + 1
    /\ UNCHANGED <<schema, processed_objects, processed_attrs>>

Done == stack = <<>> /\ ci > Len(schema.classes)

Next ==
    \/ SkipDeprecated
    \/ EmitEmptyClass
    \/ BeginClass
    \/ SkipSeen
    \/ SkipNull
    \/ SkipActive
    \/ EmitBasic
    \/ OpenGroup
    \/ Return
    \/ FinishClass

----------------------------------------------------------------------------
(* Schemas the runs start from *)

Attr(type_name, is_array) ==
    [null |-> FALSE, type_name |-> type_name, type |-> "", is_array |-> is_array]
AttrByType(type, is_array) ==
    [null |-> FALSE, type_name |-> "", type |-> type, is_array |-> is_array]
NullAttr == [null |-> TRUE, type_name |-> "", type |-> "", is_array |-> FALSE]

Entry(name, attr) == [name |-> name, attr |-> attr]

\* a key of a dict: Absent when the dict does not hold it, Key(v) when it
\* holds it with the value v, whatever v is ({} and "" included)
Absent == <<>>
Key(v) == <<v>>

\* an object definition from its keys "attributes" and "extends";
\* other = TRUE when the dict holds a key besides these two
ObjDef(attributes, extends, other) ==
    [has_attributes |-> attributes # Absent,
     attributes     |-> IF attributes = Absent THEN <<>> ELSE attributes[1],
     has_extends    |-> extends # Absent,
     extends        |-> IF extends = Absent THEN "" ELSE extends[1],
     has_other      |-> other]

\* a class definition; category is Absent or Key(c), as class_def.get("category")
\* gives None or c
ClassDef(name, category, deprecated, attributes) ==
    [name |-> name, category |-> category, deprecated |-> deprecated,
     attributes |-> attributes]

ObjNames   == {"A", "B", "C"}
AttrNames  == {"x", "y"}
TopNames   == <<"p", "q", "r", "s">>
ClassNames == <<"K1", "K2", "K3", "K4">>
Categories == <<Key("cat"), Absent, Key("cat"), Key("net")>>

\* longest attribute map of a class, longest list of classes
MaxAttrs   == 2
MaxClasses == 3

StartFrom(sch) ==
    /\ schema = sch
    /\ ci = 1
    /\ schemas = <<>>
    /\ lines = <<>>
    /\ stack = <<>>
    /\ processed_objects = {}
    /\ processed_attrs = {}

Objects(a, b, c) ==
    [o \in ObjNames |-> CASE o = "A" -> a [] o = "B" -> b [] o = "C" -> c]

BaseTypes ==
    [n \in {"string_t", "email_t", "pid_t"} |->
        [type |-> CASE n = "string_t" -> ""
                    [] n = "email_t"  -> "string_t"
                    [] n = "pid_t"    -> "integer_t"]]

(* 1. One class over varying object definitions: self references, cycles   *)
(*    through several objects, extends chains C -> B -> A, null            *)
(*    attributes, definitions without attributes, empty definitions,       *)
(*    definitions that hold a caption only or an empty extends only.       *)

\* {'caption': ...}: neither "attributes" nor "extends", yet a truthy dict
CaptionOnly == ObjDef(Absent, Absent, TRUE)

\* {'extends': ''}: the key is there, it names no object
EmptyExtendsOnly == ObjDef(Absent, Key(""), FALSE)

OneEntryMaps(names, vals) == {Key(<<Entry(n, v)>>) : n \in names, v \in vals}

DefsA ==
    {ObjDef(m, e, FALSE) :
        m \in {Absent, Key(<<>>)}
              \cup OneEntryMaps({"x"}, {NullAttr, Attr("integer_t", FALSE),
                                        Attr("A", FALSE), Attr("B", TRUE)}),
        e \in {Absent, Key("C")}}
    \cup {CaptionOnly, EmptyExtendsOnly}
DefsB ==
    {ObjDef(m, e, FALSE) :
        m \in {Absent}
              \cup OneEntryMaps(AttrNames, {NullAttr, Attr("email_t", TRUE),
                                            Attr("A", FALSE), Attr("C", FALSE)}),
        e \in {Absent, Key("A")}}
    \cup {CaptionOnly}
DefsC ==
    {ObjDef(m, e, TRUE) :
        m \in {Absent, Key(<<Entry("x", Attr("pid_t", FALSE))>>),
               Key(<<Entry("y", Attr("C", TRUE))>>)},
        e \in {Key("B"), Key("Z")}}

\* attribute maps of a class: entry number k is named TopNames[k]
TopValues == {Attr("A", FALSE), Attr("B", FALSE), Attr("C", TRUE)}
TopMaps ==
    UNION {{[k \in 1..n |-> Entry(TopNames[k], f[k])] : f \in [1..n -> TopValues]}
           : n \in 1..MaxAttrs}

InitObjects ==
    \E a \in DefsA, b \in DefsB, c \in DefsC, m \in TopMaps :
        StartFrom([classes |-> <<ClassDef("K1", Key("cat"), FALSE, m)>>,
                   objects |-> Objects(a, b, c),
                   types   |-> BaseTypes])

(* 2. One class with one attribute of a scalar type over varying acyclic   *)
(*    types mappings.                                                      *)

TypeDefNames == {"email_t", "string_t", "long_t"}
Underlying   == {"", "long_t", "boolean_t", "email_t", "string_t", "nosuch_t"}
TypeNames    == Underlying

RECURSIVE ChainEnds(_, _, _)
ChainEnds(types, n, fuel) ==
    IF n \notin DOMAIN types \/ types[n].type = "" THEN TRUE
    ELSE IF fuel = 0 THEN FALSE
    ELSE ChainEnds(types, types[n].type, fuel - 1)

Acyclic(types) ==
    \A n \in DOMAIN types : ChainEnds(types, n, Cardinality(DOMAIN types))

TypesMaps ==
    {types \in {[n \in TypeDefNames |-> [type |-> u[n]]] : u \in [TypeDefNames -> Underlying]} :
        Acyclic(types)}

ScalarAttrs ==
    {[null |-> FALSE, type_name |-> tn, type |-> t, is_array |-> arr] :
        tn \in {"", "email_t", "string_t", "long_t"},
        t \in {"", "email_t", "nosuch_t"},
        arr \in BOOLEAN}

InitTypes ==
    \E types \in TypesMaps, attr \in ScalarAttrs :
        StartFrom([classes |-> <<ClassDef("K1", Key("cat"), FALSE, <<Entry("p", attr)>>)>>,
                   objects |-> Objects(CaptionOnly, EmptyExtendsOnly, ObjDef(Absent, Absent, FALSE)),
                   types   |-> types])

(* 3. Lists of classes, some deprecated, some without attributes, over two *)
(*    fixed sets of object definitions.                                    *)

ClassAttrMaps ==
    {<<>>,
     <<Entry("p", Attr("B", FALSE))>>,
     <<Entry("p", Attr("A", TRUE)), Entry("q", Attr("C", FALSE))>>}

ClassLists ==
    UNION {{[k \in 1..n |-> ClassDef(ClassNames[k], Categories[k], f[k][1], f[k][2])] :
                f \in [1..n -> BOOLEAN \X ClassAttrMaps]}
           : n \in 0..MaxClasses}

ClassObjects ==
    {Objects(ObjDef(Key(<<Entry("x", Attr("B", FALSE))>>), Absent, TRUE),
             ObjDef(Key(<<Entry("x", Attr("A", TRUE)),
                          Entry("y", AttrByType("email_t", FALSE))>>), Key("A"), TRUE),
             ObjDef(Absent, Absent, FALSE)),
     Objects(ObjDef(Key(<<Entry("x", Attr("integer_t", TRUE))>>), Key("B"), FALSE),
             ObjDef(Key(<<Entry("y", Attr("C", FALSE))>>), Absent, FALSE),
             ObjDef(Key(<<Entry("x", NullAttr), Entry("y", Attr("A", FALSE))>>), Key("A"), TRUE))}

InitClasses ==
    \E cl \in ClassLists, objs \in ClassObjects :
        StartFrom([classes |-> cl, objects |-> objs, types |-> BaseTypes])

Init == InitObjects \/ InitTypes \/ InitClasses

Spec == Init /\ [][Next]_vars

\* the interpreter runs the one thread to the end
FairSpec == Spec /\ WF_vars(Next)

----------------------------------------------------------------------------
(* Reading the produced lines *)

Opens(l)  == IF l.kind \in {"message", "list_group", "repeated", "group"} THEN 1 ELSE 0
Closes(l) == IF l.kind = "close" THEN 1 ELSE 0

\* opening braces minus closing braces in the first k lines
RECURSIVE Net(_, _)
Net(ls, k) == IF k = 0 THEN 0 ELSE Net(ls, k - 1) + Opens(ls[k]) - Closes(ls[k])

NeverNegative(ls) == \A k \in 1..Len(ls) : Net(ls, k) >= 0
Balanced(ls)      == NeverNegative(ls) /\ Net(ls, Len(ls)) = 0

\* wrappers a suspended call has opened and not yet closed
Pending(f) ==
    IF f.stage = "loop" THEN 0 ELSE IF FrameEntry(f).attr.is_array THEN 2 ELSE 1

ClassNamed(n) == CHOOSE c \in {schema.classes[k] : k \in 1..Len(schema.classes)} : c.name = n

----------------------------------------------------------------------------
\* C5: nesting is balanced.  The lines of every call of process_attributes
\* never hold more closing than opening lines in any prefix, they are
\* balanced whenever the call is between two attributes (so in particular
\* when it returns), a suspended call has exactly the wrappers of its open
\* group pending, and every finished class text is balanced, "message ... {"
\* and the final "}" included.
C5_NestingBalanced ==
    /\ \A d \in 1..Len(stack) :
          /\ NeverNegative(stack[d].lines)
          /\ Net(stack[d].lines, Len(stack[d].lines)) = Pending(stack[d])
    /\ \A k \in 1..Len(schemas) : Balanced(schemas[k].text)

\* a nested call returns lines that hold a list wrapper, three levels deep
C5_Witness ==
    /\ Returning
    /\ Len(stack) >= 3
    /\ \E j \in 1..Len(Top.lines) : Top.lines[j].kind = "repeated"
    /\ Balanced(Top.lines)

NotDeprecated(c) == ~c.deprecated

\* C7: generate_schemas holds one triple (category, class name, text) for
\* each class gone through so far whose deprecated marker is not set, none
\* for a deprecated one, in the order of schema.classes.
C7_OneTriplePerLiveClass ==
    LET passed == SubSeq(schema.classes, 1, ci - 1)
        kept   == SelectSeq(passed, NotDeprecated)
    IN /\ Len(schemas) = Len(kept)
       /\ \A k \in 1..Len(kept) :
             /\ schemas[k].category = kept[k].category
             /\ schemas[k].class_name = kept[k].name

\* all classes done: a deprecated class between two live ones was left out
C7_Witness ==
    /\ Done
    /\ Len(schema.classes) = 3
    /\ ~schema.classes[1].deprecated
    /\ schema.classes[2].deprecated
    /\ ~schema.classes[3].deprecated
    /\ Len(schemas) = 2
    /\ schemas[2].class_name = schema.classes[3].name

\* name number k of the alias chain of n: n itself, its underlying type, that
\* type's underlying type, ...; "" once the chain has ended
RECURSIVE ChainName(_, _, _)
ChainName(types, n, k) ==
    IF k = 0 THEN n
    ELSE LET prev == ChainName(types, n, k - 1)
         IN IF prev \in DOMAIN types THEN types[prev].type ELSE ""

\* the descriptor of the first name of the chain that the primitive table
\* holds, the string default when there is none
ChainDescriptor(types, n) ==
    LET hits == {k \in 0..Cardinality(DOMAIN types) :
                    ChainName(types, n, k) \in DOMAIN basic_types}
    IN IF hits = {} THEN DefaultType
       ELSE basic_types[ChainName(types, n, CHOOSE k \in hits : \A j \in hits : k <= j)]

ScalarEntries(class_def) ==
    {e \in {class_def.attributes[k] : k \in 1..Len(class_def.attributes)} :
        ~e.attr.null /\ ~IsObjectType(DeclaredType(e.attr), schema)}

\* C8: get_basic_type returns the descriptor of the first name along the
\* alias chain that is in the primitive table and the string default when
\* there is none (empty name, unknown name, chain ending without underlying
\* type); the field a class emits for a scalar attribute carries that
\* descriptor.
C8_ResolveFollowsAliasChain ==
    /\ \A n \in TypeNames \cup DOMAIN schema.types \cup DOMAIN basic_types :
          get_basic_type(n, schema.types) = ChainDescriptor(schema.types, n)
    /\ \A k \in 1..Len(schemas) :
          \A e \in ScalarEntries(ClassNamed(schemas[k].class_name)) :
             \E j \in 1..Len(schemas[k].text) :
                LET l == schemas[k].text[j]
                IN /\ l.kind = "field"
                   /\ l.name = IF e.attr.is_array THEN "element" ELSE e.name
                   /\ l.indent = IF e.attr.is_array THEN 6 ELSE 2
                   /\ l.ptype = ChainDescriptor(schema.types, DeclaredType(e.attr))

\* a field was emitted for an alias of an alias of a primitive
C8_Witness ==
    /\ Done
    /\ Len(schemas) = 1
    /\ \E e \in ScalarEntries(schema.classes[1]) :
          LET t == DeclaredType(e.attr)
          IN /\ t \notin DOMAIN basic_types
             /\ ChainName(schema.types, t, 1) \notin DOMAIN basic_types
             /\ ChainName(schema.types, t, 2) \in DOMAIN basic_types
             /\ \E j \in 1..Len(schemas[1].text) :
                   /\ schemas[1].text[j].kind = "field"
                   /\ schemas[1].text[j].ptype = basic_types[ChainName(schema.types, t, 2)]

\* C9: the text of a class depends on the schema and the class alone: every
\* text generate_schemas has produced equals generate_class_schema of that
\* class computed on its own from empty sets, whatever was translated
\* before; and no step changes the schema.
C9_TextDependsOnClassOnly ==
    /\ [](\A k \in 1..Len(schemas) :
             schemas[k].text = generate_class_schema(schemas[k].class_name,
                                   ClassNamed(schemas[k].class_name), schema))
    /\ [][schema' = schema]_vars

\* three classes with attributes were translated one after the other, the
\* earlier ones leaving their sets behind
C9_Witness ==
    /\ Done
    /\ Len(schemas) = 3
    /\ \A k \in 1..3 : Len(schemas[k].text) > 2
    /\ processed_attrs # {}

\* object types of the groups that are open on the recursion path
ActiveTypes ==
    {DeclaredType(FrameEntry(stack[d]).attr) :
        d \in {d \in 1..Len(stack) : stack[d].stage # "loop"}}

\* C10: processed_objects holds exactly the object types of the groups
\* currently open on the recursion path: what a call added is removed before
\* the loop moves on, and the set is empty when no class is being translated.
C10_ActiveSetIsOpenGroups == processed_objects = ActiveTypes

DepthBound == Len(stack) <= Cardinality(DOMAIN schema.objects) + 1

\* C1: translating any class terminates, and the number of nested calls of
\* process_attributes never exceeds the number of object definitions plus
\* one.
C1_TerminatesWithBoundedDepth == []DepthBound /\ <>Done

\* the bound is reached: one call per object definition under the call for
\* the class, the innermost one standing at an attribute whose type is active
C1_Witness ==
    /\ Len(stack) = Cardinality(DOMAIN schema.objects) + 1
    /\ InLoop
    /\ ~CurEntry.attr.null
    /\ IsObjectType(CurType, schema)
    /\ CurType \in processed_objects

----------------------------------------------------------------------------
(* Attributes of active object types (C2, C4) *)

\* the loop stands at a non-null attribute whose path is new
AtNewAttribute == InLoop /\ CurName \notin processed_attrs /\ ~CurEntry.attr.null

\* ... whose declared type is a known object that is in processed_objects
AtActiveReference ==
    AtNewAttribute /\ IsObjectType(CurType, schema) /\ CurType \in processed_objects

\* object types of the groups the calls below call number d are suspended in
ActiveBelow(d) == {DeclaredType(FrameEntry(stack[j]).attr) : j \in 1..(d - 1)}

\* the lines a call has produced for the attribute named n
LinesFor(f, n) ==
    {j \in 1..Len(f.lines) :
        /\ f.lines[j].indent = f.indent
        /\ f.lines[j].kind \in {"field", "group", "list_group"}
        /\ f.lines[j].name = n}

\* C2: an attribute with a new path whose declared type is an
\* object in the active set is emitted as a leaf of the default type.
C2_ActiveReferenceIsLeaf ==
    [][AtActiveReference =>
          /\ Len(stack') = Len(stack)
          /\ stack'[Len(stack)].lines =
                Top.lines \o BasicLines(Top.indent, CurEntry.name, DefaultType,
                                        CurEntry.attr.is_array)]_vars

\* every list wrapper is followed by its "repeated group list" line, which
\* is the only thing the wrapper holds directly
WrapperShape(ls) ==
    \A j \in 1..Len(ls) :
        ls[j].kind = "list_group" =>
            LET ends == {m \in (j + 1)..Len(ls) :
                            ls[m].kind = "close" /\ ls[m].indent = ls[j].indent}
                stop == IF ends = {} THEN Len(ls)
                        ELSE CHOOSE m \in ends : \A m2 \in ends : m <= m2
            IN /\ j < Len(ls)
               /\ ls[j + 1] = Line(ls[j].indent + 2, "repeated", "list", "")
               /\ Cardinality({m \in (j + 1)..stop :
                                  ls[m].indent = ls[j].indent + 2 /\ ls[m].kind # "close"}) = 1
               /\ ends # {} => ls[stop - 1] = CloseLine(ls[j].indent + 2)

AllWrappersShaped ==
    /\ \A d \in 1..Len(stack) : WrapperShape(stack[d].lines)
    /\ \A k \in 1..Len(schemas) : WrapperShape(schemas[k].text)

\* the step appends the list wrapper of the current attribute
AppendsListWrapper ==
    LET n == Len(Top.lines)
        f == stack'[Len(stack)]
    IN /\ Len(stack') >= Len(stack)
       /\ Len(f.lines) >= n + 2
       /\ SubSeq(f.lines, 1, n) = Top.lines
       /\ SubSeq(f.lines, n + 1, n + 2) = GroupOpenLines(Top.indent, CurEntry.name, TRUE)

\* C4: every non-null array attribute with a new path gets one
\* "optional group <name> (LIST) {" wrapper holding one "repeated group
\* list {", whatever its declared type.
C4_EveryArrayIsWrapped ==
    /\ []AllWrappersShaped
    /\ [][(AtNewAttribute /\ CurEntry.attr.is_array) => AppendsListWrapper]_vars

----------------------------------------------------------------------------
(* Own and inherited attributes (C3, C6) *)

AttrLine(l) == l.kind \in {"group", "list_group"} \/ (l.kind = "field" /\ l.name # "element")

MapNames(attributes) == {attributes[k].name : k \in 1..Len(attributes)}
MapAttr(attributes, n) ==
    (CHOOSE e \in {attributes[k] : k \in 1..Len(attributes)} : e.name = n).attr

\* the qualified path of line j of a text, read off the nesting: the names of
\* the groups that enclose the line, level by level, and its own name
PathOf(ls, j) ==
    {<<ls[j].indent, ls[j].name>>}
    \cup {<<ls[m].indent, ls[m].name>> :
            m \in {m \in 1..(j - 1) :
                     /\ ls[m].indent < ls[j].indent
                     /\ ls[m].kind \in {"group", "list_group"}
                     /\ \A m2 \in (m + 1)..(j - 1) : ls[m2].indent # ls[m].indent}}

NoPathTwice(ls) ==
    \A j1, j2 \in {j \in 1..Len(ls) : AttrLine(ls[j])} :
        PathOf(ls, j1) = PathOf(ls, j2) => j1 = j2

\* calls made for the attributes of the parent (lines 99 / 128)
BaseCalls == {d \in 2..Len(stack) : stack[d - 1].stage = "base"}

\* the object whose group call number d fills
ObjectOf(d) == schema.objects[DeclaredType(FrameEntry(stack[d - 1]).attr)]

\* the lines the caller holds for the group it has open
GroupBody(f) ==
    LET opens == {j \in 1..Len(f.lines) :
                     f.lines[j].indent = f.indent /\ f.lines[j].kind \in {"group", "list_group"}}
        g     == CHOOSE j \in opens : \A j2 \in opens : j2 <= j
    IN SubSeq(f.lines, g + 1, Len(f.lines))

\* the first line the code emits for a scalar attribute
ScalarHead(indent, name, attr) ==
    BasicLines(indent, name, get_basic_type(DeclaredType(attr), schema.types),
               attr.is_array)[1]

\* the first line of what the own definition a of name n renders, for the
\* definitions that render something whatever came before: a scalar, or an
\* object with a non-empty definition that is not open below call number d
OwnHead(d, n, a) ==
    IF IsObjectType(DeclaredType(a), schema)
    THEN GroupOpenLines(stack[d].indent, n, a.is_array)[1]
    ELSE ScalarHead(stack[d].indent, n, a)

OwnRenders(d, a) ==
    /\ ~a.null
    /\ IsObjectType(DeclaredType(a), schema) =>
          /\ ObjDefTruthy(schema.objects[DeclaredType(a)])
          /\ DeclaredType(a) \notin ActiveBelow(d)

\* the lines for the name n that the group filled by call number d holds
\* from the own attributes of its object
OwnLines(d, n) ==
    LET body == GroupBody(stack[d - 1])
    IN {j \in 1..Len(body) :
          /\ body[j].indent = stack[d].indent
          /\ body[j].kind \in {"field", "group", "list_group"}
          /\ body[j].name = n}

\* C6: a qualified path is emitted at most once in a class text, and where an
\* object and its parent define the same name the call for the parent's
\* attributes emits no line for it and makes no nested call for it, while
\* the own definition (when it is not null) is the one emitted: the group
\* holds exactly one line for the name, and that line is the one the own
\* definition renders where its form does not depend on what came before.
C6_PathEmittedOnceOwnWins ==
    /\ \A k \in 1..Len(schemas) : NoPathTwice(schemas[k].text)
    /\ \A d \in BaseCalls :
          LET own == ObjectOf(d).attributes
          IN /\ \A n \in MapNames(own) : LinesFor(stack[d], n) = {}
             /\ stack[d].stage # "loop" => FrameEntry(stack[d]).name \notin MapNames(own)
             /\ \A n \in MapNames(own) :
                   ~MapAttr(own, n).null =>
                      /\ Cardinality(OwnLines(d, n)) = 1
                      /\ OwnRenders(d, MapAttr(own, n)) =>
                            \E j \in OwnLines(d, n) :
                               GroupBody(stack[d - 1])[j] = OwnHead(d, n, MapAttr(own, n))

\* the objects of the extends chain of o, o first
RECURSIVE ChainObjects(_, _)
ChainObjects(o, fuel) ==
    IF o \notin DOMAIN schema.objects THEN <<>>
    ELSE <<o>> \o (IF fuel > 0 /\ schema.objects[o].has_extends
                   THEN ChainObjects(schema.objects[o].extends, fuel - 1)
                   ELSE <<>>)

ExtendsChain(o) == ChainObjects(o, Cardinality(DOMAIN schema.objects) - 1)

\* the definition of name n at the most derived level of the chain
MostDerived(chain, n) ==
    LET at == {k \in 1..Len(chain) : n \in MapNames(schema.objects[chain[k]].attributes)}
    IN MapAttr(schema.objects[chain[CHOOSE k \in at : \A k2 \in at : k <= k2]].attributes, n)

\* names of the chain whose most derived definition is a non-null scalar
ScalarChainNames(chain) ==
    {n \in UNION {MapNames(schema.objects[chain[k]].attributes) : k \in 1..Len(chain)} :
        LET a == MostDerived(chain, n)
        IN ~a.null /\ ~IsObjectType(DeclaredType(a), schema)}

\* the lines of the group of the class attribute e in a finished text
TopGroupBody(ls, e) ==
    LET g    == CHOOSE j \in 1..Len(ls) :
                   ls[j].indent = 2 /\ ls[j].name = e.name
                   /\ ls[j].kind \in {"group", "list_group"}
        stop == CHOOSE m \in (g + 1)..Len(ls) :
                   /\ ls[m].indent = 2 /\ ls[m].kind = "close"
                   /\ \A m2 \in (g + 1)..(m - 1) : ~(ls[m2].indent = 2 /\ ls[m2].kind = "close")
    IN SubSeq(ls, g + 1, stop - 1)

\* class attributes whose type is an object with a non-empty definition
GroupEntries(class_def) ==
    {e \in {class_def.attributes[k] : k \in 1..Len(class_def.attributes)} :
        /\ ~e.attr.null
        /\ IsObjectType(DeclaredType(e.attr), schema)
        /\ ObjDefTruthy(schema.objects[DeclaredType(e.attr)])}

ChainNamesRendered(chain_of(_)) ==
    \A k \in 1..Len(schemas) :
        \A e \in GroupEntries(ClassNamed(schemas[k].class_name)) :
            LET chain == chain_of(DeclaredType(e.attr))
                body  == TopGroupBody(schemas[k].text, e)
                inner == NestedIndent(2, e.attr.is_array)
            IN \A n \in ScalarChainNames(chain) :
                  /\ Cardinality({j \in 1..Len(body) :
                                    /\ body[j].indent = inner
                                    /\ AttrLine(body[j])
                                    /\ body[j].name = n}) = 1
                  /\ \E j \in 1..Len(body) :
                        body[j] = ScalarHead(inner, n, MostDerived(chain, n))

\* C3: the group emitted for a class attribute of an object type holds every
\* (scalar, non-null) attribute name found anywhere on the extends chain of
\* the object exactly once, rendered from its most derived definition.
C3_WholeChainMerged == ChainNamesRendered(ExtendsChain)

====
